---------------------------- MODULE Spec2Model ----------------------------
(***************************************************************************)
(* A model of the OECD wellbeing transform (oecd_transform.py) and of the  *)
(* dashboard features that read its output (policy.py, simulator.py,       *)
(* diagonosis.py) and of the dashboard's component registry (layout.py).   *)
(*                                                                         *)
(* Numbers are exact rationals <<n, d>> in lowest terms with d > 0; the    *)
(* pair <<0, 0>> is NaN (a missing cell).  Rounding to one decimal is      *)
(* round-half-to-even, as numpy's rint does.                               *)
(***************************************************************************)
EXTENDS Integers, Sequences, FiniteSets, TLC

VARIABLES
    pc,              \* position in the transform script
    df,              \* the raw rows read from OECD-wellbeing.csv
    df_totals,       \* the rows with no demographic breakdown
    df_key,          \* the rows kept for the pivot
    df_wide,         \* the wide table: a sequence of country rows
    dimension_cols,  \* the dimension columns present, in key_measures order
    df_original,     \* the filled raw columns kept before normalization
    removed,         \* countries_to_remove
    out_files,       \* the files written so far: file name -> content
    checks,          \* the validation checks that ran, with their results
    table,           \* the table get_data() returns to the dashboard
    df_sim,          \* the per-call copy the policy simulation works on
    response,        \* what the last update call returned
    component_registry,  \* layout.py: component name -> its constructor
    failed_components,   \* layout.py: component name -> its import error
    imported,        \* how many import blocks of layout.py have run
    layout           \* what the last _get_component_layout call returned

vars == <<pc, df, df_totals, df_key, df_wide, dimension_cols, df_original, removed,
          out_files, checks, table, df_sim, response,
          component_registry, failed_components, imported, layout>>

\* the variables of the dashboard, which the transform script leaves alone
onlineVars == <<table, df_sim, response>>

\* the variables of layout.py
layoutVars == <<component_registry, failed_components, imported, layout>>

\* the variables of the transform script, which the dashboard leaves alone
scriptVars == <<pc, df, df_totals, df_key, df_wide, dimension_cols, df_original,
                removed, out_files, checks>>

-----------------------------------------------------------------------------
(* Bounds of the model *)

\* raw observations are 1..MaxRaw (or missing)
MaxRaw == 2

\* the rows that follow the complete extract in the raw tables explored
MaxExtraRows == 1

\* the loaded tables explored have at most MaxTableRows countries
MaxTableRows == 3

\* the countries of the long extracts explored, as the pivot's sorted index
LongIndex ==
    <<<<"Australia", "AUS">>, <<"Austria", "AUT">>, <<"Belgium", "BEL">>,
      <<"Canada", "CAN">>, <<"Chile", "CHL">>, <<"Denmark", "DNK">>,
      <<"Estonia", "EST">>, <<"France", "FRA">>, <<"Germany", "DEU">>,
      <<"Greece", "GRC">>, <<"Hungary", "HUN">>, <<"Iceland", "ISL">>,
      <<"Ireland", "IRL">>, <<"Israel", "ISR">>, <<"Italy", "ITA">>,
      <<"Korea", "KOR">>, <<"Latvia", "LVA">>>>

\* the countries of the wide tables explored, as the pivot's sorted index
WideIndex ==
    << <<"Finland", "FIN">>, <<"Japan", "JPN">>, <<"Mexico", "MEX">> >>

\* the allow-listed measures that occur in the raw inputs explored
RawMeasures == {"Life satisfaction", "Employment rate", "Homicides"}

-----------------------------------------------------------------------------
(* Exact arithmetic *)

RECURSIVE GCD(_, _)
GCD(a, b) == IF b = 0 THEN a ELSE GCD(b, a % b)

Abs(x) == IF x < 0 THEN -x ELSE x

NaN == <<0, 0>>

IsNaN(x) == x[2] = 0

\* n / d in lowest terms, d > 0
Rat(n, d) ==
    LET g == GCD(Abs(n), d)
    IN  <<n \div g, d \div g>>

RAdd(x, y) == Rat(x[1] * y[2] + y[1] * x[2], x[2] * y[2])
RSub(x, y) == Rat(x[1] * y[2] - y[1] * x[2], x[2] * y[2])
RLt(x, y) == x[1] * y[2] < y[1] * x[2]
RLe(x, y) == x[1] * y[2] <= y[1] * x[2]

\* numpy rint: the nearest integer to n / d (d > 0), halves to the even one
RoundHalfEven(n, d) ==
    LET q == n \div d
        r == n % d
    IN  IF 2 * r < d THEN q
        ELSE IF 2 * r > d THEN q + 1
        ELSE IF q % 2 = 0 THEN q ELSE q + 1

\* Series.round(1): NaN stays NaN
Round1(x) == IF IsNaN(x) THEN NaN ELSE Rat(RoundHalfEven(10 * x[1], x[2]), 10)

RECURSIVE SumSeq(_)
SumSeq(s) == IF s = <<>> THEN <<0, 1>> ELSE RAdd(Head(s), SumSeq(Tail(s)))

\* the subsequence of s whose elements satisfy Keep
SelectNotNaN(s) == SelectSeq(s, LAMBDA x : ~IsNaN(x))

\* Series.mean(): the mean of the non-missing values, NaN when there are none
Mean(s) ==
    LET t == SelectNotNaN(s)
    IN  IF t = <<>> THEN NaN
        ELSE LET m == SumSeq(t) IN Rat(m[1], m[2] * Len(t))

-----------------------------------------------------------------------------
(* STEP 2: the configuration *)

\* key_measures, in the dictionary's order: measure name, short name, invert
key_measures ==
    << [measure |-> "Life satisfaction", short |-> "life_satisfaction", invert |-> FALSE],
       [measure |-> "Life expectancy at birth", short |-> "health", invert |-> FALSE],
       [measure |-> "Households and NPISHs net adjusted disposable income per capita",
        short |-> "income", invert |-> FALSE],
       [measure |-> "Adult literacy skills", short |-> "education", invert |-> FALSE],
       [measure |-> "Employment rate", short |-> "jobs", invert |-> FALSE],
       [measure |-> "Long hours in paid work", short |-> "work_life_balance", invert |-> TRUE],
       [measure |-> "Homicides", short |-> "safety", invert |-> TRUE],
       [measure |-> "Access to green space", short |-> "environment", invert |-> FALSE],
       [measure |-> "Social support", short |-> "social_connections", invert |-> FALSE],
       [measure |-> "Housing affordability", short |-> "housing", invert |-> TRUE] >>

KeyIndex == 1..Len(key_measures)

KeyMeasureNames == {key_measures[k].measure : k \in KeyIndex}

\* rename_map: the short name of an allow-listed measure
ShortName(m) == key_measures[CHOOSE k \in KeyIndex : key_measures[k].measure = m].short

\* measure_info[0][1][1]: the invert flag of a dimension column
should_invert(col) ==
    key_measures[CHOOSE k \in KeyIndex : key_measures[k].short = col].invert

\* the configured short names that are columns of the wide table, in order
DimensionCols(present) ==
    SelectSeq([k \in KeyIndex |-> key_measures[k].short], LAMBDA c : c \in present)

-----------------------------------------------------------------------------
(* Tables: a sequence of rows; a row's val maps each dimension column to a  *)
(* number or NaN                                                            *)

Rows(tbl) == 1..Len(tbl)

Range(s) == {s[i] : i \in DOMAIN s}

Column(tbl, col) == [i \in Rows(tbl) |-> tbl[i].val[col]]

\* Series.min() and Series.max() skip missing values; NaN when none is left
ColMin(s) ==
    LET t == SelectNotNaN(s)
    IN  IF t = <<>> THEN NaN
        ELSE CHOOSE x \in Range(t) : \A y \in Range(t) : RLe(x, y)

ColMax(s) ==
    LET t == SelectNotNaN(s)
    IN  IF t = <<>> THEN NaN
        ELSE CHOOSE x \in Range(t) : \A y \in Range(t) : RLe(y, x)

\* Series.rank(pct=True): the average rank among the non-missing values,
\* divided by their number; a missing value has no rank
RankPct(s, i) ==
    LET t == SelectNotNaN(s)
        less == Cardinality({j \in DOMAIN t : RLt(t[j], s[i])})
        same == Cardinality({j \in DOMAIN t : t[j] = s[i]})
    IN  IF IsNaN(s[i]) THEN NaN
        ELSE Rat(2 * less + same + 1, 2 * Len(t))

-----------------------------------------------------------------------------
(* STEP 1: totals only; STEP 3: most recent year; STEP 4: pivot *)

IsTotal(r) == r.Age = "Total" /\ r.Sex = "Total" /\ r.Education = "Total"

FilterTotals(rows) == SelectSeq(rows, IsTotal)

GroupKey(r) == <<r.Country, r.REF_AREA, r.Measure>>

\* a mutant: any row of group g, whatever its Year
AnyOfGroup(keyed, g) == {r \in keyed : GroupKey(r) = g}

\* the rows of group g with the group's greatest Year
Latest(keyed, g) ==
    {r \in keyed : /\ GroupKey(r) = g
                   /\ \A q \in keyed : GroupKey(q) = g => q.Year <= r.Year}

\* every way of taking one latest row from each group
RECURSIVE PickEach(_, _)
PickEach(keyed, groups) ==
    IF groups = {} THEN {{}}
    ELSE LET g == CHOOSE x \in groups : TRUE
         IN  {{r} \cup rest : r \in Latest(keyed, g), rest \in PickEach(keyed, groups \ {g})}

\* sort_values('Year').groupby([...]).tail(1): one row of each group, of the
\* group's greatest Year; which of several rows of that Year is the sort's choice
MostRecentChoices(rows) ==
    LET keyed == {rows[i] : i \in {j \in DOMAIN rows : rows[j].Measure \in KeyMeasureNames}}
    IN  PickEach(keyed, {GroupKey(r) : r \in keyed})

\* the strings of the model in sort order (the pivot sorts its index)
StrOrder ==
    <<"AUS", "AUT", "Australia", "Austria", "BEL", "Belgium", "CAN", "CHL",
      "Canada", "Chile", "DEU", "DNK", "Denmark", "EST", "Estonia", "FIN",
      "FRA", "Finland", "France", "GRC", "Germany", "Greece", "HUN",
      "Hungary", "IRL", "ISL", "ISR", "ITA", "Iceland", "Ireland", "Israel",
      "Italy", "JPN", "Japan", "KOR", "Korea", "LVA", "Latvia", "MEX",
      "Mexico">>

StrRank(x) == CHOOSE k \in DOMAIN StrOrder : StrOrder[k] = x

PairBefore(p, q) ==
    \/ StrRank(p[1]) < StrRank(q[1])
    \/ p[1] = q[1] /\ StrRank(p[2]) <= StrRank(q[2])

\* pivot_table(index=['Country','REF_AREA'], columns='Measure', aggfunc='first'):
\* cells without an observation are dropped before the table is spread, so the
\* index holds the (Country, REF_AREA) pairs, and the columns the measures,
\* that have one
PivotIndex(key) == {<<r.Country, r.REF_AREA>> : r \in {q \in key : ~IsNaN(q.OBS_VALUE)}}

PivotColumns(key) == {ShortName(r.Measure) : r \in {q \in key : ~IsNaN(q.OBS_VALUE)}}

PivotCell(key, p, col) ==
    LET hit == {r \in key : /\ r.Country = p[1] /\ r.REF_AREA = p[2]
                            /\ ShortName(r.Measure) = col /\ ~IsNaN(r.OBS_VALUE)}
    IN  IF hit = {} THEN NaN ELSE (CHOOSE r \in hit : TRUE).OBS_VALUE

Pivot(key) ==
    LET idx == PivotIndex(key)
        pos(p) == Cardinality({q \in idx : PairBefore(q, p)})
    IN  [n \in 1..Cardinality(idx) |->
            LET p == CHOOSE q \in idx : pos(q) = n
            IN  [country |-> p[1], country_code |-> p[2],
                 val |-> [c \in PivotColumns(key) |-> PivotCell(key, p, c)]]]

-----------------------------------------------------------------------------
(* STEP 5: handle missing values *)

MissingCount(row, cols) == Cardinality({k \in DOMAIN cols : IsNaN(row.val[cols[k]])})

\* missing_pct_by_country > 50, with missing_pct = missing / len(cols) * 100
MissingOver50(row, cols) == 2 * MissingCount(row, cols) > Len(cols)

CountriesToRemove(tbl, cols) ==
    SelectSeq(tbl, LAMBDA row : MissingOver50(row, cols))

DropLowCoverage(tbl, cols) ==
    IF CountriesToRemove(tbl, cols) # <<>>
    THEN SelectSeq(tbl, LAMBDA row : ~MissingOver50(row, cols))
    ELSE tbl

\* fillna(avg_val): every missing cell of the column takes the column mean
\* (which is itself NaN when no surviving country has an observation)
FillCell(x, avg_val) == IF IsNaN(x) THEN avg_val ELSE x

FillMissing(tbl, cols) ==
    [i \in Rows(tbl) |->
        [tbl[i] EXCEPT !.val =
            [c \in DOMAIN tbl[i].val |->
                IF c \in Range(cols)
                THEN FillCell(tbl[i].val[c], Mean(Column(tbl, c)))
                ELSE tbl[i].val[c]]]]

-----------------------------------------------------------------------------
(* STEP 6: normalize to the 0-100 scale *)

\* a mutant: the percentile rank itself, not inverted
RankScore(s, i) ==
    LET p == RankPct(s, i)
    IN  IF IsNaN(p) THEN NaN ELSE Rat(100 * p[1], p[2])

\* (1 - rank(pct=True)) * 100
InvertedScore(s, i) ==
    LET p == RankPct(s, i)
    IN  IF IsNaN(p) THEN NaN ELSE Rat(100 * (p[2] - p[1]), p[2])

\* a mutant: the scale reversed, (max - x) / (max - min) * 100
MinMaxReversed(s, i) ==
    LET min_val == ColMin(s)
        max_val == ColMax(s)
    IN  IF ~IsNaN(min_val) /\ RLt(min_val, max_val)
        THEN IF IsNaN(s[i]) THEN NaN
             ELSE LET num == RSub(max_val, s[i])
                      den == RSub(max_val, min_val)
                  IN  Rat(100 * num[1] * den[2], num[2] * den[1])
        ELSE <<50, 1>>

\* (x - min) / (max - min) * 100 when max > min, else 50.0
MinMaxScore(s, i) ==
    LET min_val == ColMin(s)
        max_val == ColMax(s)
    IN  IF ~IsNaN(min_val) /\ RLt(min_val, max_val)
        THEN IF IsNaN(s[i]) THEN NaN
             ELSE LET num == RSub(s[i], min_val)
                      den == RSub(max_val, min_val)
                  IN  Rat(100 * num[1] * den[2], num[2] * den[1])
        ELSE <<50, 1>>

NormalizeCell(s, i, col) ==
    IF should_invert(col) THEN InvertedScore(s, i) ELSE MinMaxScore(s, i)

\* the normalization loop followed by the rounding loop
Normalize(tbl, cols) ==
    [i \in Rows(tbl) |->
        [tbl[i] EXCEPT !.val =
            [c \in DOMAIN tbl[i].val |->
                IF c \in Range(cols)
                THEN Round1(NormalizeCell(Column(tbl, c), i, c))
                ELSE tbl[i].val[c]]]]

-----------------------------------------------------------------------------
(* STEP 7: composite index; STEP 8: gaps from the OECD average *)

RowValues(row, cols) == [k \in DOMAIN cols |-> row.val[cols[k]]]

\* a mutant: the mean without the rounding
UnroundedMean(row, cols) == Mean(RowValues(row, cols))

\* df_wide[dimension_cols].mean(axis=1).round(1)
CompositeIndex(row, cols) == Round1(Mean(RowValues(row, cols)))

\* (df_wide[col] - oecd_averages[col]).round(1)
Gap(x, avg) == IF IsNaN(x) \/ IsNaN(avg) THEN NaN ELSE Round1(RSub(x, avg))

\* a mutant: the mean of the column before normalization
RawAverage(tbl, col) == Mean([i \in Rows(df_original) |-> df_original[i].val[col]])

OecdAverage(tbl, col) == Mean(Column(tbl, col))

-----------------------------------------------------------------------------
(* STEP 9: sort descending by composite_index *)

\* a missing composite_index sorts last
SortsBefore(x, y) == IF IsNaN(y) THEN TRUE ELSE ~IsNaN(x) /\ RLe(y, x)

IsSortedDesc(tbl) ==
    \A i \in Rows(tbl) : \A j \in Rows(tbl) :
        i < j => SortsBefore(tbl[i].composite_index, tbl[j].composite_index)

\* a mutant: the rows left in the pivot's order
UnsortedOrders(tbl) == {tbl}

\* the orders sort_values may leave the rows in (its default sort is not
\* stable): a row with the greatest composite_index, then the rest in order
RECURSIVE SortedSeqs(_)
SortedSeqs(rows) ==
    IF rows = {} THEN {<<>>}
    ELSE UNION {{<<r>> \o t : t \in SortedSeqs(rows \ {r})} :
                   r \in {x \in rows : \A y \in rows :
                             SortsBefore(x.composite_index, y.composite_index)}}

SortedOrders(tbl) == SortedSeqs(Range(tbl))

-----------------------------------------------------------------------------
(* The transform script from the wide table on, one action per step *)

WithComposite(tbl, cols) ==
    [i \in Rows(tbl) |->
        [country |-> tbl[i].country, country_code |-> tbl[i].country_code,
         val |-> tbl[i].val,
         composite_index |-> CompositeIndex(tbl[i], cols)]]

WithGaps(tbl, cols) ==
    [i \in Rows(tbl) |->
        [country |-> tbl[i].country, country_code |-> tbl[i].country_code,
         val |-> tbl[i].val,
         composite_index |-> tbl[i].composite_index,
         gap |-> [c \in Range(cols) |-> Gap(tbl[i].val[c], OecdAverage(tbl, c))]]]

Head15(tbl) == SubSeq(tbl, 1, IF Len(tbl) < 15 THEN Len(tbl) ELSE 15)

MainFile == "oecd_wellbeing_processed.csv"
MetadataFile == "oecd_data_metadata.txt"
SampleFile == "oecd_sample_15countries.csv"

NoFiles == [f \in {} |-> <<>>]

NoResponse == [feature |-> "none"]

NoLayout == [call |-> <<>>]

\* layout.py before its import
LayoutNotLoaded ==
    /\ component_registry = <<>>
    /\ failed_components = <<>>
    /\ imported = 0
    /\ layout = NoLayout

Step5 ==
    /\ pc = "wide"
    /\ removed' = [i \in Rows(CountriesToRemove(df_wide, dimension_cols)) |->
                      CountriesToRemove(df_wide, dimension_cols)[i].country]
    /\ df_wide' = FillMissing(DropLowCoverage(df_wide, dimension_cols), dimension_cols)
    /\ pc' = "filled"
    /\ UNCHANGED <<df, df_totals, df_key, dimension_cols, df_original, out_files, checks>>
    /\ UNCHANGED onlineVars
    /\ UNCHANGED layoutVars

Step6 ==
    /\ pc = "filled"
    /\ df_original' = df_wide
    /\ df_wide' = Normalize(df_wide, dimension_cols)
    /\ pc' = "normalized"
    /\ UNCHANGED <<df, df_totals, df_key, dimension_cols, removed, out_files, checks>>
    /\ UNCHANGED onlineVars
    /\ UNCHANGED layoutVars

Step7 ==
    /\ pc = "normalized"
    /\ df_wide' = WithComposite(df_wide, dimension_cols)
    /\ pc' = "composite"
    /\ UNCHANGED <<df, df_totals, df_key, dimension_cols, df_original, removed, out_files, checks>>
    /\ UNCHANGED onlineVars
    /\ UNCHANGED layoutVars

Step8 ==
    /\ pc = "composite"
    /\ df_wide' = WithGaps(df_wide, dimension_cols)
    /\ pc' = "gaps"
    /\ UNCHANGED <<df, df_totals, df_key, dimension_cols, df_original, removed, out_files, checks>>
    /\ UNCHANGED onlineVars
    /\ UNCHANGED layoutVars

Step9 ==
    /\ pc = "gaps"
    /\ df_wide' \in SortedOrders(df_wide)
    /\ pc' = "sorted"
    /\ UNCHANGED <<df, df_totals, df_key, dimension_cols, df_original, removed, out_files, checks>>
    /\ UNCHANGED onlineVars
    /\ UNCHANGED layoutVars

\* STEP 10 prints two gap columns of every row shown: with rows to show and
\* fewer than two gap columns, strengths[1] raises IndexError and the script ends
Step10 ==
    /\ pc = "sorted"
    /\ pc' = IF Len(df_wide) > 0 /\ Len(dimension_cols) < 2 THEN "aborted" ELSE "displayed"
    /\ UNCHANGED <<df, df_totals, df_key, df_wide, dimension_cols, df_original, removed,
                   out_files, checks>>
    /\ UNCHANGED onlineVars
    /\ UNCHANGED layoutVars

Step11 ==
    /\ pc = "displayed"
    /\ out_files' = (MainFile :> df_wide) @@ (MetadataFile :> Len(df_wide))
                       @@ (SampleFile :> Head15(df_wide))
    /\ pc' = "saved"
    /\ UNCHANGED <<df, df_totals, df_key, df_wide, dimension_cols, df_original, removed, checks>>
    /\ UNCHANGED onlineVars
    /\ UNCHANGED layoutVars

\* min().min() and max().max() skip missing values
AllScores0To100(tbl, cols) ==
    \A i \in Rows(tbl) : \A c \in Range(cols) :
        IsNaN(tbl[i].val[c]) \/ (RLe(<<0, 1>>, tbl[i].val[c]) /\ RLe(tbl[i].val[c], <<100, 1>>))

MinCountries == 25

\* the checks and the warning printed when one of them fails
Checks(tbl, cols) ==
    LET scores_0_100 == AllScores0To100(tbl, cols)
        at_least_25 == Len(tbl) >= MinCountries
    IN  [scores_0_100 |-> scores_0_100, at_least_25 |-> at_least_25,
         warning |-> ~(scores_0_100 /\ at_least_25)]

\* a mutant: the files are removed when a check fails
Step12Rollback ==
    /\ pc = "saved"
    /\ checks' = Checks(df_wide, dimension_cols)
    /\ pc' = "validated"
    /\ out_files' = IF checks'.warning THEN NoFiles ELSE out_files
    /\ UNCHANGED <<df, df_totals, df_key, df_wide, dimension_cols, df_original, removed>>
    /\ UNCHANGED onlineVars
    /\ UNCHANGED layoutVars

Step12 ==
    /\ pc = "saved"
    /\ checks' = Checks(df_wide, dimension_cols)
    /\ pc' = "validated"
    /\ UNCHANGED <<df, df_totals, df_key, df_wide, dimension_cols, df_original, removed, out_files>>
    /\ UNCHANGED onlineVars
    /\ UNCHANGED layoutVars

NextWide == Step5 \/ Step6 \/ Step7 \/ Step8 \/ Step9 \/ Step10 \/ Step11 \/ Step12

\* the cells explored: a measure's observation is 1..MaxRaw or missing, and
\* the employment rate, which only varies the coverage, is 1 or missing
RawCells == {NaN} \cup {<<v, 1>> : v \in 1..MaxRaw}

CellsOf(m) == IF m = "Employment rate" THEN {NaN, <<1, 1>>} ELSE RawCells

\* a country's observations: at least one (the pivot has no empty row)
CountryObservations ==
    {o \in [RawMeasures -> RawCells] :
        /\ \A m \in RawMeasures : o[m] \in CellsOf(m)
        /\ \E m \in RawMeasures : ~IsNaN(o[m])}

\* df_key for these observations: one Total row per observed cell
KeyRows(obs) ==
    {[Country |-> WideIndex[i][1], REF_AREA |-> WideIndex[i][2], Measure |-> m,
      Age |-> "Total", Sex |-> "Total", Education |-> "Total",
      Year |-> 1, OBS_VALUE |-> obs[i][m]] :
        <<i, m>> \in {c \in (DOMAIN WideIndex) \X RawMeasures : ~IsNaN(obs[c[1]][c[2]])}}

\* a long extract of n countries: life satisfaction rises along the index,
\* homicides rise with it or are level
LongKeyRows(n, level) ==
    {[Country |-> LongIndex[i][1], REF_AREA |-> LongIndex[i][2], Measure |-> m,
      Age |-> "Total", Sex |-> "Total", Education |-> "Total", Year |-> 1,
      OBS_VALUE |-> IF m = "Homicides" /\ level THEN <<1, 1>> ELSE <<i, 1>>] :
        <<i, m>> \in (1 .. n) \X {"Life satisfaction", "Homicides"}}

LongExtracts ==
    {LongKeyRows(n, level) :
        n \in (Len(LongIndex) - 2) .. Len(LongIndex), level \in BOOLEAN}

\* a sparse extract of four measures: Finland observes two of them, Japan
\* three, and Mexico only the fourth, which nobody else observes
SparseObservations(v) ==
    {<<1, "Life satisfaction", <<v, 1>>>>, <<1, "Employment rate", <<1, 1>>>>,
     <<2, "Life satisfaction", <<1, 1>>>>, <<2, "Employment rate", <<1, 1>>>>,
     <<2, "Homicides", <<v, 1>>>>, <<3, "Social support", <<1, 1>>>>}

SparseKeyRows(v) ==
    {[Country |-> WideIndex[o[1]][1], REF_AREA |-> WideIndex[o[1]][2], Measure |-> o[2],
      Age |-> "Total", Sex |-> "Total", Education |-> "Total", Year |-> 1,
      OBS_VALUE |-> o[3]] : o \in SparseObservations(v)}

SparseExtracts == {SparseKeyRows(v) : v \in 1 .. MaxRaw}

WideExtracts ==
    {KeyRows(obs) : obs \in [DOMAIN WideIndex -> CountryObservations]}
        \cup LongExtracts \cup SparseExtracts

\* the script at STEP 5, over the wide tables the pivot produces for WideIndex,
\* for the long extracts and for the sparse extracts
InitWide ==
    /\ pc = "wide"
    /\ df = <<>>
    /\ df_totals = <<>>
    /\ \E key \in WideExtracts :
          /\ df_key = key
          /\ df_wide = Pivot(key)
          /\ dimension_cols = DimensionCols(PivotColumns(key))
    /\ df_original = <<>>
    /\ removed = <<>>
    /\ out_files = NoFiles
    /\ checks = <<>>
    /\ table = <<>>
    /\ df_sim = <<>>
    /\ response = NoResponse
    /\ LayoutNotLoaded

SpecWide == InitWide /\ [][NextWide]_vars

-----------------------------------------------------------------------------
(* The whole script, from the raw rows *)

Step1 ==
    /\ pc = "loaded"
    /\ df_totals' = FilterTotals(df)
    /\ pc' = "totals"
    /\ UNCHANGED <<df, df_key, df_wide, dimension_cols, df_original, removed,
                   out_files, checks>>
    /\ UNCHANGED onlineVars
    /\ UNCHANGED layoutVars

Step3 ==
    /\ pc = "totals"
    /\ df_key' \in MostRecentChoices(df_totals)
    /\ pc' = "key"
    /\ UNCHANGED <<df, df_totals, df_wide, dimension_cols, df_original, removed,
                   out_files, checks>>
    /\ UNCHANGED onlineVars
    /\ UNCHANGED layoutVars

Step4 ==
    /\ pc = "key"
    /\ df_wide' = Pivot(df_key)
    /\ dimension_cols' = DimensionCols(PivotColumns(df_key))
    /\ pc' = "wide"
    /\ UNCHANGED <<df, df_totals, df_key, df_original, removed, out_files, checks>>
    /\ UNCHANGED onlineVars
    /\ UNCHANGED layoutVars

Next == Step1 \/ Step3 \/ Step4 \/ NextWide

\* the raw tables explored: an extract of two measures for two countries,
\* followed by at most MaxExtraRows further rows
RawRow(country, code, measure, age, year, value) ==
    [Country |-> country, REF_AREA |-> code, Measure |-> measure,
     Age |-> age, Sex |-> "Total", Education |-> "Total",
     Year |-> year, OBS_VALUE |-> value]

BaseRows ==
    << RawRow("Finland", "FIN", "Life satisfaction", "Total", 2, <<1, 1>>),
       RawRow("Finland", "FIN", "Homicides", "Total", 2, <<1, 1>>),
       RawRow("Japan", "JPN", "Life satisfaction", "Total", 1, <<2, 1>>),
       RawRow("Japan", "JPN", "Homicides", "Total", 1, <<2, 1>>) >>

Years == {1, 2, 3}

ExtraRows ==
    {RawRow(c, a, m, g, y, v) :
        c \in {"Finland", "Mexico"}, a \in {"FIN", "MEX"},
        m \in {"Life satisfaction", "Employment rate", "Feeling safe at night"},
        g \in {"Total", "15-24"}, y \in Years, v \in RawCells}

ExtraSeqs == UNION {[1..n -> ExtraRows] : n \in 0..MaxExtraRows}

Init ==
    /\ pc = "loaded"
    /\ \E extra \in ExtraSeqs : df = BaseRows \o extra
    /\ df_totals = <<>>
    /\ df_key = {}
    /\ df_wide = <<>>
    /\ dimension_cols = <<>>
    /\ df_original = <<>>
    /\ removed = <<>>
    /\ out_files = NoFiles
    /\ checks = <<>>
    /\ table = <<>>
    /\ df_sim = <<>>
    /\ response = NoResponse
    /\ LayoutNotLoaded

Spec == Init /\ [][Next]_vars

-----------------------------------------------------------------------------
(* The dashboard: the loaded table and the features' update callbacks *)

RMul(x, y) == Rat(x[1] * y[1], x[2] * y[2])

RAbs(x) == <<Abs(x[1]), x[2]>>

\* np.minimum: NaN propagates
RMin(x, y) == IF IsNaN(x) \/ IsNaN(y) THEN NaN ELSE IF RLe(x, y) THEN x ELSE y

\* an optional keyword argument: <<>> is None, <<v>> is the value v
IsNone(a) == a = <<>>

OrDefault(a, default) == IF IsNone(a) THEN default ELSE a[1]

\* filter_data(get_data(), **kwargs): the rows that satisfy every predicate,
\* in the table's order
Satisfies(row, pred) ==
    IF pred.op = ">=" THEN RLe(pred.value, row.val[pred.column])
    ELSE RLe(row.val[pred.column], pred.value)

\* a mutant: the rows that satisfy some predicate
filter_any(tbl, preds) ==
    SelectSeq(tbl, LAMBDA row : \E q \in preds : Satisfies(row, q))

filter_data(tbl, preds) ==
    SelectSeq(tbl, LAMBDA row : \A q \in preds : Satisfies(row, q))

HasColumns(tbl, cols) == \A i \in Rows(tbl) : cols \subseteq DOMAIN tbl[i].val

\* a mutant: the placeholder of a failed update, whatever the text
PlaceholderFigure(text) ==
    [annotation |-> "An error occurred while updating this chart", traces |-> <<>>]

NoDataFigure(text) == [annotation |-> text, traces |-> <<>>]

ErrorFigure == NoDataFigure("An error occurred while updating this chart")

\* ---- policy.py: the percentage-boost simulation ----

\* the weights, in hundredths
weights ==
    [environment |-> 15, education |-> 15, jobs |-> 20, safety |-> 10, income |-> 10,
     housing |-> 10, health |-> 10, work_life_balance |-> 5, social_connections |-> 5]

BoostedDims == {"environment", "education", "jobs"}

\* a mutant: the boost without the cap at 100
BoostedUncapped(x, boost) == RMul(x, Rat(100 + boost, 100))

\* np.minimum(x * (1 + boost / 100), 100)
Boosted(x, boost) == RMin(RMul(x, Rat(100 + boost, 100)), <<100, 1>>)

\* a mutant: the raw value of every dimension
RawOnly(r, d) == r.val[d]

\* the value the weighted sum takes for dimension d of a simulated row
SimOrRaw(r, d) == IF d \in BoostedDims THEN r.sim[d] ELSE r.val[d]

RECURSIVE WeightedSum(_, _)
WeightedSum(r, dims) ==
    IF dims = {} THEN <<0, 1>>
    ELSE LET d == CHOOSE x \in dims : TRUE
         IN  RAdd(RMul(SimOrRaw(r, d), Rat(weights[d], 100)), WeightedSum(r, dims \ {d}))

\* df_sim: the copy of df, whatever its columns, with the _sim columns added
PolicySim(tbl, dimension, boost) ==
    [i \in Rows(tbl) |->
        LET sim == [d \in BoostedDims |-> Boosted(tbl[i].val[d], boost[d])]
            r == [country |-> tbl[i].country, val |-> tbl[i].val, sim |-> sim]
        IN  [sim |-> r.sim,
             life_satisfaction_sim |-> WeightedSum(r, DOMAIN weights),
             dimension_sim |-> SimOrRaw(r, dimension)] @@ tbl[i]]

MovedBy(a, b) == RLt(<<1, 10>>, RAbs(RSub(a, b)))

PolicyDimension(kwargs) == OrDefault(kwargs.dimension, "environment")

PolicyBoost(kwargs) == [d \in BoostedDims |-> OrDefault(kwargs[d], 0)]

\* the columns _update_logic reads
PolicyColumns(kwargs) == DOMAIN weights \cup {PolicyDimension(kwargs), "life_satisfaction"}

\* the df_sim that _update_logic builds: none when it returns or raises before
PolicyDfSim(kwargs) ==
    LET data == filter_data(table, kwargs.filter)
    IN  IF Len(data) = 0 \/ ~HasColumns(data, PolicyColumns(kwargs)) THEN <<>>
        ELSE PolicySim(data, PolicyDimension(kwargs), PolicyBoost(kwargs))

\* _update_logic of policy.py, sim being its df_sim; raised is an exception
\* leaving the function
PolicyLogic(kwargs, sim) ==
    LET data == filter_data(table, kwargs.filter)
        dimension == PolicyDimension(kwargs)
        boost == PolicyBoost(kwargs)
        current == [name |-> "Current Position",
                    x |-> [i \in Rows(data) |-> data[i].val[dimension]],
                    y |-> [i \in Rows(data) |-> data[i].val["life_satisfaction"]],
                    text |-> [i \in Rows(data) |-> data[i].country]]
        simulated == [name |-> "Simulated Position",
                      x |-> [i \in Rows(sim) |-> sim[i].dimension_sim],
                      y |-> [i \in Rows(sim) |-> sim[i].life_satisfaction_sim],
                      text |-> [i \in Rows(sim) |-> sim[i].country]]
        arrows == {i \in Rows(data) :
                      \/ MovedBy(sim[i].dimension_sim, data[i].val[dimension])
                      \/ MovedBy(sim[i].life_satisfaction_sim, data[i].val["life_satisfaction"])}
    IN  IF Len(data) = 0
        THEN [raised |-> FALSE, figure |-> NoDataFigure("No data available")]
        ELSE IF ~HasColumns(data, PolicyColumns(kwargs))
        THEN [raised |-> TRUE, figure |-> ErrorFigure]
        ELSE IF \E d \in BoostedDims : boost[d] > 0
        THEN [raised |-> FALSE,
              figure |-> [annotation |-> "", traces |-> <<current, simulated>>,
                          arrows |-> arrows]]
        ELSE [raised |-> FALSE,
              figure |-> [annotation |-> "", traces |-> <<current>>, arrows |-> {}]]

\* whether the frame filter_data returned is the loaded frame itself: it may
\* be when no predicate was given
FilteredIsLoaded(kwargs) == kwargs.filter = {}

\* a mutant: df_sim = df, without the copy
Assigned(shared) == shared

\* df_sim = df.copy(): whether df_sim shares its columns with df
Copied(shared) == FALSE

\* the loaded table after _update_logic wrote the _sim columns into df_sim
TableAfterPolicy(kwargs, sim) ==
    IF sim # <<>> /\ Copied(FilteredIsLoaded(kwargs)) THEN sim ELSE table

\* update of policy.py
PolicyUpdate(kwargs) ==
    /\ df_sim' = PolicyDfSim(kwargs)
    /\ table' = TableAfterPolicy(kwargs, df_sim')
    /\ LET r == PolicyLogic(kwargs, df_sim')
       IN  response' = [feature |-> "policy", kwargs |-> kwargs,
                        figure |-> IF r.raised THEN ErrorFigure ELSE r.figure,
                        error |-> IF r.raised THEN "Error updating chart" ELSE ""]
    /\ UNCHANGED scriptVars
    /\ UNCHANGED layoutVars

\* ---- simulator.py: the point-improvement simulation ----

\* a float that may be NaN or irrational: base + coef * cov / sqrt(vx * vy)
NaNValue == [nan |-> TRUE, base |-> <<0, 1>>, coef |-> <<0, 1>>, cov |-> <<0, 1>>, vx |-> <<1, 1>>, vy |-> <<1, 1>>]

Exact(x) == [nan |-> FALSE, base |-> x, coef |-> <<0, 1>>, cov |-> <<0, 1>>, vx |-> <<1, 1>>, vy |-> <<1, 1>>]

\* the value is the number x
IsExactly(v, x) == ~v.nan /\ v.base = x /\ (v.coef[1] = 0 \/ v.cov[1] = 0)

RSeqMul(xs, ys) == [i \in DOMAIN xs |-> RMul(xs[i], ys[i])]

RScale(n, x) == Rat(n * x[1], x[2])

\* n * sum(x y) - sum(x) sum(y)
Covariance(xs, ys) ==
    RSub(RScale(Len(xs), SumSeq(RSeqMul(xs, ys))), RMul(SumSeq(xs), SumSeq(ys)))

\* a mutant: an undefined correlation counted as 0
CorrOrZero(xs, ys, coef, base) ==
    LET vx == Covariance(xs, xs)
        vy == Covariance(ys, ys)
    IN  IF Len(xs) < 2 \/ vx[1] = 0 \/ vy[1] = 0 THEN Exact(base)
        ELSE IF coef[1] = 0 \/ Covariance(xs, ys)[1] = 0 THEN Exact(base)
        ELSE [nan |-> FALSE, base |-> base, coef |-> coef,
              cov |-> Covariance(xs, ys), vx |-> vx, vy |-> vy]

\* Series.corr: Pearson's r, NaN with fewer than two rows or a constant column;
\* base + coef * xs.corr(ys)
CorrIncrease(xs, ys, coef, base) ==
    LET vx == Covariance(xs, xs)
        vy == Covariance(ys, ys)
    IN  IF Len(xs) < 2 \/ vx[1] = 0 \/ vy[1] = 0 THEN NaNValue
        ELSE IF coef[1] = 0 \/ Covariance(xs, ys)[1] = 0 THEN Exact(base)
        ELSE [nan |-> FALSE, base |-> base, coef |-> coef,
              cov |-> Covariance(xs, ys), vx |-> vx, vy |-> vy]

\* a mutant: the improved value cut to 100
CappedDimensionVal(current, improvement) ==
    RMin(RAdd(current, <<improvement, 1>>), <<100, 1>>)

\* new_dimension_val = current_dimension_val + improvement
NewDimensionVal(current, improvement) == RAdd(current, <<improvement, 1>>)

\* _update_logic of simulator.py
SimulatorLogic(kwargs) ==
    LET data == filter_data(table, kwargs.filter)
        country == OrDefault(kwargs.country, "United States")
        dimension == OrDefault(kwargs.dimension, "environment")
        improvement == OrDefault(kwargs.improvement, 10)
        country_data == SelectSeq(data, LAMBDA row : row.country = country)
        current_life_sat == country_data[1].val["life_satisfaction"]
        current_dimension_val == country_data[1].val[dimension]
        new_life_sat ==
            CorrIncrease([i \in Rows(data) |-> data[i].val["life_satisfaction"]],
                         [i \in Rows(data) |-> data[i].val[dimension]],
                         Rat(3 * improvement, 10), current_life_sat)
        new_dimension_val == NewDimensionVal(current_dimension_val, improvement)
    IN  IF Len(data) = 0
        THEN [raised |-> FALSE, figure |-> NoDataFigure("No data available"),
              narrative |-> "No data available for analysis."]
        ELSE IF Len(country_data) = 0
        THEN [raised |-> FALSE, figure |-> NoDataFigure("No data available for " \o country),
              narrative |-> "No data available for " \o country \o "."]
        ELSE IF ~HasColumns(data, {dimension, "life_satisfaction"})
        THEN [raised |-> TRUE, figure |-> ErrorFigure, narrative |-> ""]
        ELSE [raised |-> FALSE,
              figure |-> [annotation |-> "",
                          current |-> [x |-> current_dimension_val, y |-> current_life_sat],
                          simulated |-> [x |-> new_dimension_val, y |-> new_life_sat]],
              narrative |-> "AI Simulation Insight"]

\* update of simulator.py
SimulatorUpdate(kwargs) ==
    LET r == SimulatorLogic(kwargs)
    IN  /\ response' = [feature |-> "simulator", kwargs |-> kwargs,
                        figure |-> IF r.raised THEN ErrorFigure ELSE r.figure,
                        narrative |-> IF r.raised THEN "Error generating AI narrative."
                                      ELSE r.narrative,
                        error |-> IF r.raised THEN "Error updating chart" ELSE ""]
        /\ df_sim' = <<>>
        /\ UNCHANGED table
        /\ UNCHANGED scriptVars
        /\ UNCHANGED layoutVars

\* ---- diagonosis.py: the gap chart and its narrative ----

gap_columns ==
    <<"life_satisfaction", "health", "income", "education", "jobs",
      "work_life_balance", "safety", "environment", "social_connections", "housing">>

dimension_names ==
    [life_satisfaction |-> "Life Satisfaction", health |-> "Health", income |-> "Income",
     education |-> "Education", jobs |-> "Jobs", work_life_balance |-> "Work-Life Balance",
     safety |-> "Safety", environment |-> "Environment",
     social_connections |-> "Social Connections", housing |-> "Housing"]

\* gap_values and dimension_labels: the gap columns the row has, in
\* gap_columns order
GapPairs(row) ==
    LET present == SelectSeq(gap_columns, LAMBDA c : c \in DOMAIN row.gap)
    IN  [k \in DOMAIN present |->
            [label |-> dimension_names[present[k]], gap |-> row.gap[present[k]]]]

\* list.sort(key=gap, reverse=True): descending, and stable, so pairs of
\* equal gap keep their order
SortedByGap(pairs) ==
    LET pos(i) == Cardinality({j \in DOMAIN pairs : RLt(pairs[i].gap, pairs[j].gap)})
                  + Cardinality({j \in DOMAIN pairs : j <= i /\ pairs[j].gap = pairs[i].gap})
    IN  [n \in DOMAIN pairs |-> pairs[CHOOSE i \in DOMAIN pairs : pos(i) = n]]

\* a mutant: the first two pairs whatever the sign of their gaps
FirstTwo(sorted) == SubSeq(sorted, 1, IF Len(sorted) < 2 THEN Len(sorted) ELSE 2)

\* [d for d in dimension_gaps if d[1] > 0][:2]
Strengths(sorted) ==
    LET positive == SelectSeq(sorted, LAMBDA d : RLt(<<0, 1>>, d.gap))
    IN  SubSeq(positive, 1, IF Len(positive) < 2 THEN Len(positive) ELSE 2)

\* [d for d in dimension_gaps if d[1] < 0][-2:]
Weaknesses(sorted) ==
    LET negative == SelectSeq(sorted, LAMBDA d : RLt(d.gap, <<0, 1>>))
    IN  SubSeq(negative, IF Len(negative) < 2 THEN 1 ELSE Len(negative) - 1, Len(negative))

\* df.groupby('country')['composite_index'].first(): the first row of each country
FirstOfCountry(data) ==
    {i \in Rows(data) : \A j \in Rows(data) : data[j].country = data[i].country => i <= j}

\* ....sort_values(ascending=False).index[0]: a country of the greatest
\* composite_index (the sort's choice among several)
TopPerformers(data) ==
    {data[i].country : i \in {k \in FirstOfCountry(data) :
        \A j \in FirstOfCountry(data) :
            SortsBefore(data[k].composite_index, data[j].composite_index)}}

\* the recommendation that prioritizes a dimension
Prioritize(worst_dimension, top_performer) ==
    [recommendation |-> "Prioritizing improvements", dimension |-> worst_dimension,
     leader |-> <<top_performer>>]

\* the policy sentence of the narrative
PolicyText(weaknesses, worst_dimension, top_performer) ==
    IF weaknesses # <<>> THEN Prioritize(worst_dimension, top_performer)
    ELSE [recommendation |-> "maintaining its current performance levels",
          dimension |-> "", leader |-> <<>>]

\* a mutant: f"{gap:.1f}", which gives a positive gap no sign
FormatUnsigned(x) ==
    LET tenths == RoundHalfEven(10 * Abs(x[1]), x[2])
    IN  [sign |-> IF x[1] < 0 THEN "-" ELSE "", whole |-> tenths \div 10,
         tenth |-> tenths % 10]

\* f"{gap:+.1f}": the sign, the whole part and one decimal
FormatSigned(x) ==
    LET tenths == RoundHalfEven(10 * Abs(x[1]), x[2])
    IN  [sign |-> IF x[1] < 0 THEN "-" ELSE "+", whole |-> tenths \div 10,
         tenth |-> tenths % 10]

\* the bullets of a section: one per pair, "**{dim}**: {gap:+.1f} points ..."
Bullets(list, text) ==
    [k \in DOMAIN list |->
        [subject |-> list[k].label, gap |-> <<FormatSigned(list[k].gap)>>, text |-> text]]

\* the strengths section: its bullets and its paragraph
StrengthsSection(country, strengths) ==
    IF strengths # <<>>
    THEN [heading |-> "Key Strengths",
          bullets |-> Bullets(strengths, "points above OECD average"),
          paragraph |-> "demonstrates notable excellence"]
    ELSE [heading |-> "Key Strengths",
          bullets |-> <<[subject |-> country, gap |-> <<>>,
                         text |-> "is performing at or below OECD average across most dimensions"]>>,
          paragraph |-> "faces challenges across multiple wellbeing dimensions"]

\* the weaknesses section: its bullets and its paragraph
WeaknessesSection(country, weaknesses) ==
    IF weaknesses # <<>>
    THEN [heading |-> "Critical Areas for Improvement",
          bullets |-> Bullets(weaknesses, "points below OECD average"),
          paragraph |-> "reveals significant challenges"]
    ELSE [heading |-> "Areas for Attention",
          bullets |-> <<[subject |-> country, gap |-> <<>>,
                         text |-> "shows relatively balanced performance across dimensions"]>>,
          paragraph |-> "maintains consistent performance"]

\* _generate_narrative, top_performer being the head of the sorted scores:
\* the sections of the text
GenerateNarrative(country, pairs, top_performer) ==
    LET dimension_gaps == SortedByGap(pairs)
        strengths == Strengths(dimension_gaps)
        weaknesses == Weaknesses(dimension_gaps)
        worst_dimension == IF dimension_gaps # <<>>
                           THEN dimension_gaps[Len(dimension_gaps)].label
                           ELSE "overall wellbeing"
    IN  [header |-> country, strengths |-> strengths, weaknesses |-> weaknesses,
         strengths_section |-> StrengthsSection(country, strengths),
         weaknesses_section |-> WeaknessesSection(country, weaknesses),
         policy |-> PolicyText(weaknesses, worst_dimension, top_performer)]

DiagnosisCountry(kwargs) == OrDefault(kwargs.country, "Finland")

DiagnosisRows(kwargs) ==
    SelectSeq(filter_data(table, kwargs.filter),
              LAMBDA row : row.country = DiagnosisCountry(kwargs))

\* whether df['composite_index'] exists: _generate_narrative raises KeyError
\* when it does not
HasComposite(data) == \A i \in Rows(data) : "composite_index" \in DOMAIN data[i]

\* _update_logic of diagonosis.py; raised is an exception leaving the function
DiagnosisLogic(kwargs, top_performer) ==
    LET data == filter_data(table, kwargs.filter)
        selected_country == DiagnosisCountry(kwargs)
        country_data == DiagnosisRows(kwargs)
        pairs == GapPairs(country_data[1])
    IN  IF Len(data) = 0
        THEN [raised |-> FALSE, figure |-> NoDataFigure("No data available"),
              narrative |-> [text |-> "No data available for analysis."]]
        ELSE IF Len(country_data) = 0
        THEN [raised |-> FALSE,
              figure |-> NoDataFigure("No data available for " \o selected_country),
              narrative |-> [text |-> "No data available for " \o selected_country \o "."]]
        ELSE IF ~HasComposite(data)
        THEN [raised |-> TRUE, figure |-> ErrorFigure, narrative |-> [text |-> ""]]
        ELSE [raised |-> FALSE,
              figure |-> [annotation |-> "",
                          x |-> [k \in DOMAIN pairs |-> pairs[k].gap],
                          y |-> [k \in DOMAIN pairs |-> pairs[k].label]],
              narrative |-> GenerateNarrative(selected_country, pairs, top_performer)]

\* a mutant: update of diagonosis.py reporting no error when _update_logic raised
DiagnosisUpdateSilent(kwargs) ==
    /\ \E top_performer \in
            IF DiagnosisRows(kwargs) = <<>> \/ ~HasComposite(table) THEN {""}
            ELSE TopPerformers(filter_data(table, kwargs.filter)) :
          LET r == DiagnosisLogic(kwargs, top_performer)
          IN  response' = [feature |-> "diagnosis", kwargs |-> kwargs,
                           figure |-> r.figure, narrative |-> r.narrative,
                           error |-> ""]
    /\ df_sim' = <<>>
    /\ UNCHANGED table
    /\ UNCHANGED scriptVars
    /\ UNCHANGED layoutVars

\* update of diagonosis.py
DiagnosisUpdate(kwargs) ==
    /\ \E top_performer \in
            IF DiagnosisRows(kwargs) = <<>> \/ ~HasComposite(table) THEN {""}
            ELSE TopPerformers(filter_data(table, kwargs.filter)) :
          LET r == DiagnosisLogic(kwargs, top_performer)
          IN  response' = [feature |-> "diagnosis", kwargs |-> kwargs,
                           figure |-> IF r.raised THEN ErrorFigure ELSE r.figure,
                           narrative |-> IF r.raised
                                         THEN [text |-> "Error generating narrative."]
                                         ELSE r.narrative,
                           error |-> IF r.raised THEN "Error updating chart" ELSE ""]
    /\ df_sim' = <<>>
    /\ UNCHANGED table
    /\ UNCHANGED scriptVars
    /\ UNCHANGED layoutVars

\* ---- the sessions: a loaded table, then any sequence of callbacks ----

Countries == <<"Finland", "Denmark", "United States", "Mexico">>

Scores(ls, env, edu, jobs, rest) ==
    [c \in {"life_satisfaction"} \cup DOMAIN weights |->
        IF c = "life_satisfaction" THEN ls
        ELSE IF c = "environment" THEN env
        ELSE IF c = "education" THEN edu
        ELSE IF c = "jobs" THEN jobs
        ELSE IF c = "safety" THEN <<50, 1>>
        ELSE rest]

\* normalized scores with one decimal; safety is a constant column
Profiles ==
    [c \in Range(Countries) |->
        IF c = "Finland" THEN Scores(<<100, 1>>, <<481, 5>>, <<85, 1>>, <<90, 1>>, <<80, 1>>)
        ELSE IF c = "Denmark" THEN Scores(<<95, 1>>, <<90, 1>>, <<100, 1>>, <<70, 1>>, <<75, 1>>)
        ELSE IF c = "United States"
        THEN Scores(<<60, 1>>, <<50, 1>>, <<60, 1>>, <<80, 1>>, <<111, 2>>)
        ELSE Scores(<<0, 1>>, <<10, 1>>, <<0, 1>>, <<30, 1>>, <<20, 1>>)]

\* the table of the countries chosen, with the columns cols: the scores, and
\* the composite_index and _gap columns the transform derives from them
LoadedTable(chosen, cols) ==
    LET picked == SelectSeq([i \in 1 .. Len(Countries) |-> i], LAMBDA i : i \in chosen)
        scores == [k \in 1 .. Len(picked) |->
                      [country |-> Countries[picked[k]],
                       val |-> [c \in cols |-> Profiles[Countries[picked[k]]][c]]]]
    IN  [k \in 1 .. Len(picked) |->
            [country |-> scores[k].country,
             val |-> scores[k].val,
             composite_index |-> CompositeIndex(scores[k], DimensionCols(cols)),
             gap |-> [c \in cols |-> Gap(scores[k].val[c], OecdAverage(scores, c))]]]

AllColumns == {"life_satisfaction"} \cup DOMAIN weights

\* a table without its composite_index column
WithoutComposite(tbl) ==
    [i \in Rows(tbl) |-> [country |-> tbl[i].country, val |-> tbl[i].val, gap |-> tbl[i].gap]]

\* the countries of the tables explored without a composite_index
LegacyChoices == {{1, 4}}

\* a table a transform produced: every measure present, or one measure absent;
\* and a table that has no composite_index
Tables ==
    {LoadedTable(chosen, cols) :
        chosen \in {S \in SUBSET (1 .. Len(Countries)) :
                       Cardinality(S) >= 1 /\ Cardinality(S) <= MaxTableRows},
        cols \in {AllColumns, AllColumns \ {"social_connections"}}}
    \cup {WithoutComposite(LoadedTable(chosen, AllColumns)) : chosen \in LegacyChoices}

\* no filter, or two predicates that a row has to satisfy together
FilterInputs ==
    {{}, {[column |-> "income", op |-> ">=", value |-> <<50, 1>>],
          [column |-> "education", op |-> "<=", value |-> <<90, 1>>]}}

PolicyInputs ==
    [filter : FilterInputs,
     dimension : {<<>>, <<"safety">>},
     environment : {<<>>, <<0>>, <<25>>},
     education : {<<0>>, <<10>>},
     jobs : {<<0>>, <<40>>}]

DiagnosisInputs ==
    [filter : FilterInputs,
     country : {<<>>, <<"Denmark">>, <<"Mexico">>}]

SimulatorInputs ==
    [filter : FilterInputs,
     country : {<<>>, <<"Finland">>, <<"Mexico">>},
     dimension : {<<>>, <<"safety">>, <<"social_connections">>},
     improvement : {<<>>, <<0>>, <<5>>}]

InitOnline ==
    /\ table \in Tables
    /\ df_sim = <<>>
    /\ response = NoResponse
    /\ LayoutNotLoaded
    /\ pc = "validated"
    /\ df = <<>>
    /\ df_totals = <<>>
    /\ df_key = {}
    /\ df_wide = <<>>
    /\ dimension_cols = <<>>
    /\ df_original = <<>>
    /\ removed = <<>>
    /\ out_files = NoFiles
    /\ checks = <<>>

NextOnline ==
    \/ \E kwargs \in PolicyInputs : PolicyUpdate(kwargs)
    \/ \E kwargs \in SimulatorInputs : SimulatorUpdate(kwargs)
    \/ \E kwargs \in DiagnosisInputs : DiagnosisUpdate(kwargs)

SpecOnline == InitOnline /\ [][NextOnline]_vars

-----------------------------------------------------------------------------
(* layout.py: the component registry and the layout of a component *)

\* the chart components, in the order of their import blocks
ComponentNames ==
    <<"global_wellbeing_choropleth", "country_radar_chart", "gap_analysis_bar_chart",
      "policy_simulation_scatter", "wellbeing_dimensions_comparison",
      "composite_index_ranking", "add_an_ai_narrative_text_box",
      "produce_an_ai_narrative_text">>

\* str(e) of a failed import
ImportFailure(name) == "No module named components." \o name

\* one import block: try: from components.<name> import component;
\* component_registry[name] = component, except Exception as e:
\* failed_components[name] = str(e)
ImportComponent ==
    /\ imported < Len(ComponentNames)
    /\ LET name == ComponentNames[imported + 1]
       IN  \/ /\ component_registry' = component_registry @@ (name :> "component")
              /\ UNCHANGED failed_components
           \/ /\ failed_components' = failed_components @@ (name :> ImportFailure(name))
              /\ UNCHANGED component_registry
    /\ imported' = imported + 1
    /\ UNCHANGED layout
    /\ UNCHANGED scriptVars
    /\ UNCHANGED onlineVars

\* what calling a registered constructor does: it returns its card, or raises
ConstructorOutcomes == {"card", "Exception: no data"}

\* the placeholder of a component that is not in the registry
ErrorLoadingCard(component_name, width) ==
    [header |-> "Error loading", name |-> component_name, width |-> width,
     body |-> [details |-> IF component_name \in DOMAIN failed_components
                           THEN failed_components[component_name]
                           ELSE "Component not found in registry."]]

\* the placeholder of a component whose constructor raised e
ErrorInCard(component_name, width, e) ==
    [header |-> "Error in", name |-> component_name, width |-> width,
     body |-> [exception |-> e, graph |-> "empty"]]

\* a mutant: _get_component_layout without its try block
UnguardedLayout(component_name, width, preview, outcome) ==
    IF component_name \notin DOMAIN component_registry
    THEN [raised |-> FALSE, card |-> ErrorLoadingCard(component_name, width)]
    ELSE IF outcome # "card"
    THEN [raised |-> TRUE, card |-> <<>>]
    ELSE [raised |-> FALSE,
          card |-> [header |-> "component", name |-> component_name, width |-> width,
                    body |-> [edit_button |-> preview]]]

\* _get_component_layout, outcome being what the constructor does when called;
\* raised is an exception leaving the function
ComponentLayout(component_name, width, preview, outcome) ==
    IF component_name \notin DOMAIN component_registry
    THEN [raised |-> FALSE, card |-> ErrorLoadingCard(component_name, width)]
    ELSE IF outcome # "card"
    THEN [raised |-> FALSE, card |-> ErrorInCard(component_name, width, outcome)]
    ELSE [raised |-> FALSE,
          card |-> [header |-> "component", name |-> component_name, width |-> width,
                    body |-> [edit_button |-> preview]]]

\* a call of _get_component_layout, once the module is imported
GetComponentLayout(component_name, width, preview) ==
    /\ imported = Len(ComponentNames)
    /\ \E outcome \in ConstructorOutcomes :
          LET r == ComponentLayout(component_name, width, preview, outcome)
          IN  layout' = [call |-> <<[component_name |-> component_name, width |-> width,
                                     preview |-> preview, outcome |-> outcome]>>,
                         raised |-> r.raised, card |-> r.card]
    /\ UNCHANGED <<component_registry, failed_components, imported>>
    /\ UNCHANGED scriptVars
    /\ UNCHANGED onlineVars

\* the names asked for: the chart components and a name nobody registered
LayoutNames == Range(ComponentNames) \cup {"data_table"}

Widths == {50, 100}

InitLayout ==
    /\ LayoutNotLoaded
    /\ table = <<>>
    /\ df_sim = <<>>
    /\ response = NoResponse
    /\ pc = "validated"
    /\ df = <<>>
    /\ df_totals = <<>>
    /\ df_key = {}
    /\ df_wide = <<>>
    /\ dimension_cols = <<>>
    /\ df_original = <<>>
    /\ removed = <<>>
    /\ out_files = NoFiles
    /\ checks = <<>>

NextLayout ==
    \/ ImportComponent
    \/ \E component_name \in LayoutNames, width \in Widths, preview \in BOOLEAN :
          GetComponentLayout(component_name, width, preview)

SpecLayout == InitLayout /\ [][NextLayout]_vars

-----------------------------------------------------------------------------
(* The transform's output and what the claims say about it *)

Saved == MainFile \in DOMAIN out_files

Output == out_files[MainFile]

Normalized ==
    pc \in {"normalized", "composite", "gaps", "sorted", "displayed", "aborted",
            "saved", "validated"}

\* the filled raw value (before normalization) of a row's country
RawOf(row, col) ==
    (CHOOSE o \in Range(df_original) :
        o.country = row.country /\ o.country_code = row.country_code).val[col]

InRange0To100(x) == ~IsNaN(x) /\ RLe(<<0, 1>>, x) /\ RLe(x, <<100, 1>>)

InvertedCols == {c \in Range(dimension_cols) : should_invert(c)}

\* C1: every dimension value and the composite index of every output row is a
\* number in [0, 100]
C1_ScoresInRange ==
    Saved =>
        \A i \in Rows(Output) :
            /\ \A c \in Range(dimension_cols) : InRange0To100(Output[i].val[c])
            /\ InRange0To100(Output[i].composite_index)

\* C2: with at least two surviving countries, the country whose raw value of
\* an inverted dimension is the lowest has the normalized value 100.0
C2_LowestInvertedGets100 ==
    Saved /\ Len(Output) >= 2 =>
        \A c \in InvertedCols : \A i \in Rows(Output) :
            (/\ ~IsNaN(RawOf(Output[i], c))
             /\ \A j \in Rows(Output) : RLe(RawOf(Output[i], c), RawOf(Output[j], c)))
            => Output[i].val[c] = <<100, 1>>

\* C3: a dimension whose raw value is the same for every surviving country is
\* normalized to 50.0 for every country, inverted or not
C3_ConstantColumnGets50 ==
    Saved =>
        \A c \in Range(dimension_cols) :
            (/\ \A i \in Rows(Output) : ~IsNaN(RawOf(Output[i], c))
             /\ \A i, j \in Rows(Output) : RawOf(Output[i], c) = RawOf(Output[j], c))
            => \A i \in Rows(Output) : Output[i].val[c] = <<50, 1>>

\* C4: on an inverted dimension a strictly lower raw value never has a lower
\* rounded normalized value
C4_InvertMonotone ==
    Normalized =>
        \A c \in InvertedCols : \A i, j \in Rows(df_wide) :
            (/\ ~IsNaN(RawOf(df_wide[i], c)) /\ ~IsNaN(RawOf(df_wide[j], c))
             /\ RLt(RawOf(df_wide[i], c), RawOf(df_wide[j], c)))
            => /\ ~IsNaN(df_wide[i].val[c]) /\ ~IsNaN(df_wide[j].val[c])
               /\ RLe(df_wide[j].val[c], df_wide[i].val[c])

\* three countries in the output, two of them tied on the raw value of an
\* inverted dimension and the third strictly lower and scored strictly higher
C4_Witness ==
    /\ Saved
    /\ \E c \in InvertedCols : \E i, j, k \in Rows(Output) :
          /\ j # k
          /\ ~IsNaN(RawOf(Output[i], c))
          /\ RLt(RawOf(Output[i], c), RawOf(Output[j], c))
          /\ RawOf(Output[j], c) = RawOf(Output[k], c)
          /\ RLt(Output[j].val[c], Output[i].val[c])

\* DataFrame.sum() of a gap column: missing gaps are skipped
GapSum(tbl, col) == SumSeq(SelectNotNaN([i \in Rows(tbl) |-> tbl[i].gap[col]]))

\* C5: each gap is the output value minus the mean of the output column,
\* rounded to one decimal, and the gaps of a dimension sum to at most
\* 0.1 x (number of rows) in absolute value
C5_GapZeroSum ==
    Saved =>
        \A c \in Range(dimension_cols) :
            /\ \A i \in Rows(Output) :
                  Output[i].gap[c] = Gap(Output[i].val[c], Mean(Column(Output, c)))
            /\ RLe(RAbs(GapSum(Output, c)), <<Len(Output), 10>>)

\* an output of several rows in which the rounded gaps of a dimension do not
\* cancel exactly
C5_Witness ==
    /\ Saved
    /\ Len(Output) >= 2
    /\ \E c \in Range(dimension_cols) :
          /\ \A i \in Rows(Output) : ~IsNaN(Output[i].gap[c])
          /\ GapSum(Output, c) # <<0, 1>>

\* the number of configured dimensions with no observation for a country
ConfiguredMissing(p) ==
    Len(key_measures)
        - Cardinality({r.Measure : r \in {q \in df_key :
              /\ q.Country = p[1] /\ q.REF_AREA = p[2] /\ ~IsNaN(q.OBS_VALUE)}})

\* C6: a country with more than half of the 10 configured dimensions missing
\* is not in the output
C6_SixMissingDropped ==
    Saved =>
        \A p \in PivotIndex(df_key) :
            2 * ConfiguredMissing(p) > Len(key_measures)
            => ~\E i \in Rows(Output) :
                  Output[i].country = p[1] /\ Output[i].country_code = p[2]

\* C10: no two output rows share a country name, and no two share a
\* country_code
C10_OneRecordPerCountry ==
    Saved =>
        \A i, j \in Rows(Output) :
            i # j => /\ Output[i].country # Output[j].country
                     /\ Output[i].country_code # Output[j].country_code


-----------------------------------------------------------------------------
(* The dashboard's responses and what the claims say about them *)

\* the filtered table the current response was computed from
Filtered == filter_data(table, response.kwargs.filter)

PolicyAnswered == response.feature = "policy" /\ df_sim # <<>>

BoostOf(d) == OrDefault(response.kwargs[d], 0)

\* C7: in the percentage-boost simulation, for every country and every
\* boostable dimension (environment, education, jobs) the simulated value is
\* raw * (1 + boost / 100) where that is at most 100 and 100 otherwise, so it
\* never exceeds 100; the raw columns, and with them the displayed value of a
\* dimension that is not boostable, keep their raw values.
C7_SimulationCap ==
    PolicyAnswered =>
        /\ Len(df_sim) = Len(Filtered)
        /\ \A i \in Rows(df_sim) :
            /\ df_sim[i].val = Filtered[i].val
            /\ \A d \in {"environment", "education", "jobs"} :
                LET raw == Filtered[i].val[d]
                    sim == df_sim[i].sim[d]
                    num == raw[1] * (100 + BoostOf(d))
                    den == raw[2] * 100
                IN  /\ sim[2] > 0
                    /\ sim[1] <= 100 * sim[2]
                    /\ IF num <= 100 * den THEN sim[1] * den = num * sim[2]
                       ELSE sim = <<100, 1>>
            /\ LET dimension == OrDefault(response.kwargs.dimension, "environment")
               IN  dimension \notin {"environment", "education", "jobs"}
                       => df_sim[i].dimension_sim = Filtered[i].val[dimension]

\* a boosted value that the cap cut to 100 and a boosted value below the cap
C7_Witness ==
    /\ PolicyAnswered
    /\ \E i \in Rows(df_sim) : \E d \in BoostedDims :
        /\ BoostOf(d) > 0
        /\ RLt(Filtered[i].val[d], <<100, 1>>)
        /\ RLt(<<100, 1>>, RMul(Filtered[i].val[d], Rat(100 + BoostOf(d), 100)))
        /\ df_sim[i].sim[d] = <<100, 1>>
    /\ \E i \in Rows(df_sim) : \E d \in BoostedDims :
        /\ BoostOf(d) > 0
        /\ RLt(Filtered[i].val[d], df_sim[i].sim[d])
        /\ RLt(df_sim[i].sim[d], <<100, 1>>)

\* C8: with every boost zero (policy) or zero improvement points (simulator),
\* every simulated value in the response, dimension and life satisfaction,
\* equals the base record's value exactly.
C8_NoChange ==
    /\ (PolicyAnswered /\ \A d \in BoostedDims : BoostOf(d) = 0) =>
          \A k \in 1 .. Len(response.figure.traces) :
              LET trace == response.figure.traces[k]
                  dimension == OrDefault(response.kwargs.dimension, "environment")
              IN  \A i \in Rows(Filtered) :
                      /\ trace.x[i] = Filtered[i].val[dimension]
                      /\ trace.y[i] = Filtered[i].val["life_satisfaction"]
    /\ ( /\ response.feature = "simulator"
         /\ "simulated" \in DOMAIN response.figure
         /\ response.kwargs.improvement = <<0>> ) =>
          /\ response.figure.simulated.x = response.figure.current.x
          /\ IsExactly(response.figure.simulated.y, response.figure.current.y)

-----------------------------------------------------------------------------
(* Claims about the raw rows that reach the pivot *)

\* the Total/Total/Total rows of the allow-listed measures
Eligible ==
    {df[i] : i \in {j \in DOMAIN df :
        /\ df[j].Age = "Total" /\ df[j].Sex = "Total" /\ df[j].Education = "Total"
        /\ df[j].Measure \in KeyMeasureNames}}

SamePair(r, q) ==
    r.Country = q.Country /\ r.REF_AREA = q.REF_AREA /\ r.Measure = q.Measure

\* C11: of the eligible rows of each (country, measure) pair, a country being
\* a (Country, REF_AREA) pair as in the pivot's index, exactly one feeds the
\* pivot and its Year is the pair's greatest; a pivoted cell holds the value of
\* a row of the greatest Year or is missing, never an older observation.
C11_MostRecentYear ==
    /\ pc \notin {"loaded", "totals"} =>
        /\ df_key \subseteq Eligible
        /\ \A r \in Eligible :
              /\ Cardinality({q \in df_key : SamePair(q, r)}) = 1
              /\ \A q \in df_key : SamePair(q, r) => r.Year <= q.Year
    /\ pc = "wide" =>
        \A i \in Rows(df_wide) : \A c \in DOMAIN df_wide[i].val :
            ~IsNaN(df_wide[i].val[c]) =>
                \E r \in Eligible :
                    /\ r.Country = df_wide[i].country
                    /\ r.REF_AREA = df_wide[i].country_code
                    /\ ShortName(r.Measure) = c
                    /\ r.OBS_VALUE = df_wide[i].val[c]
                    /\ \A q \in Eligible : SamePair(q, r) => q.Year <= r.Year

\* a pivoted country whose latest observation of a measure is missing while an
\* older one has a value: the cell is missing
C11_Witness ==
    /\ pc = "wide"
    /\ \E i \in Rows(df_wide) : \E r \in Eligible : \E q \in Eligible :
        /\ SamePair(q, r)
        /\ q.Year < r.Year
        /\ IsNaN(r.OBS_VALUE)
        /\ ~IsNaN(q.OBS_VALUE)
        /\ r.Country = df_wide[i].country
        /\ r.REF_AREA = df_wide[i].country_code
        /\ ShortName(r.Measure) \in DOMAIN df_wide[i].val
        /\ IsNaN(df_wide[i].val[ShortName(r.Measure)])

\* the pivoted table before STEP 5, and a surviving country's row of it
Pivoted == Pivot(df_key)

PivotedRow(row) ==
    CHOOSE k \in Rows(Pivoted) :
        Pivoted[k].country = row.country /\ Pivoted[k].country_code = row.country_code

\* the raw values of column c that the surviving countries observed
SurvivorValues(c) ==
    SelectNotNaN([i \in Rows(df_wide) |-> Pivoted[PivotedRow(df_wide[i])].val[c]])

\* C12: after the fill step no dimension cell of a surviving country is
\* missing: a cell that was missing holds the mean of the raw values of its
\* dimension over the surviving countries, and an observed cell is unchanged.
C12_FilledWithSurvivorMean ==
    pc = "filled" =>
        \A i \in Rows(df_wide) : \A k \in DOMAIN dimension_cols :
            LET c == dimension_cols[k]
                before == Pivoted[PivotedRow(df_wide[i])].val[c]
                xs == SurvivorValues(c)
            IN  /\ ~IsNaN(df_wide[i].val[c])
                /\ IF IsNaN(before)
                   THEN /\ Len(xs) > 0
                        /\ df_wide[i].val[c] = Rat(SumSeq(xs)[1], SumSeq(xs)[2] * Len(xs))
                   ELSE df_wide[i].val[c] = before

\* the dimension values of an output row that are present, in column order
PresentValues(row) ==
    SelectNotNaN([k \in DOMAIN dimension_cols |-> row.val[dimension_cols[k]]])

\* C13: every output record's composite_index is the unweighted mean of the
\* record's dimension values as written (rounded to one decimal), itself
\* rounded to one decimal; a missing value is left out of the mean.
C13_CompositeIsRoundedMean ==
    Saved =>
        \A i \in Rows(Output) :
            LET xs == PresentValues(Output[i])
            IN  IF Len(xs) = 0 THEN IsNaN(Output[i].composite_index)
                ELSE Output[i].composite_index
                         = Round1(Rat(SumSeq(xs)[1], SumSeq(xs)[2] * Len(xs)))

\* an output record with every dimension present whose mean has more than
\* one decimal
C13_Witness ==
    /\ Saved
    /\ \E i \in Rows(Output) :
        LET xs == PresentValues(Output[i])
        IN  /\ Len(xs) = Len(dimension_cols)
            /\ Len(xs) >= 2
            /\ Output[i].composite_index # Rat(SumSeq(xs)[1], SumSeq(xs)[2] * Len(xs))

SampleRows == 15

\* C14: the output table is in descending order of composite_index (each row's
\* composite_index is at least the next row's), and the sample file is the
\* first 15 rows of it, or all of it when it has fewer.
C14_SortedDescending ==
    Saved =>
        /\ \A i \in Rows(Output) :
              /\ ~IsNaN(Output[i].composite_index)
              /\ i < Len(Output) =>
                    RLe(Output[i + 1].composite_index, Output[i].composite_index)
        /\ LET sample == out_files[SampleFile]
           IN  /\ Len(sample) = IF Len(Output) < SampleRows THEN Len(Output) ELSE SampleRows
               /\ \A k \in Rows(sample) : sample[k] = Output[k]

\* an output of more than 15 rows, so that the sample leaves rows out, whose
\* composite_index falls along the table
C14_Witness ==
    /\ Saved
    /\ Len(Output) > SampleRows
    /\ Len(out_files[SampleFile]) = SampleRows
    /\ RLt(Output[Len(Output)].composite_index, Output[1].composite_index)

\* the dimensions whose measure has an observation in the source rows
PresentDimensions == {ShortName(r.Measure) : r \in {q \in df_key : ~IsNaN(q.OBS_VALUE)}}

\* C15: with allow-listed measures absent from the source the script does not
\* abort, and the output it writes has a column and a _gap column for exactly
\* the dimensions that are present, the composite_index being their mean.
C15_AbsentMeasureDropped ==
    /\ pc # "aborted"
    /\ Saved =>
        /\ Range(dimension_cols) = PresentDimensions
        /\ \A i \in Rows(Output) :
              /\ DOMAIN Output[i].val = PresentDimensions
              /\ DOMAIN Output[i].gap = PresentDimensions
              /\ LET xs == PresentValues(Output[i])
                 IN  Len(xs) > 0 =>
                        Output[i].composite_index
                            = Round1(Rat(SumSeq(xs)[1], SumSeq(xs)[2] * Len(xs)))

\* C16: no update callback changes the loaded table: whatever the feature
\* and its inputs, the table has the same rows, columns and values afterwards.
C16_TableNeverMutated == [][table' = table]_vars

\* a policy response over the unfiltered table whose copy holds a simulated
\* value that differs from the table's
C16_Witness ==
    /\ PolicyAnswered
    /\ response.kwargs.filter = {}
    /\ table \in Tables
    /\ \E i \in Rows(df_sim) : \E d \in BoostedDims : df_sim[i].sim[d] # table[i].val[d]

SimulatorAnswered ==
    response.feature = "simulator" /\ "simulated" \in DOMAIN response.figure

\* the row the simulator response is about, its dimension and its points
SimulatedRow ==
    LET country == OrDefault(response.kwargs.country, "United States")
    IN  Filtered[CHOOSE i \in Rows(Filtered) :
                    /\ Filtered[i].country = country
                    /\ \A j \in Rows(Filtered) : Filtered[j].country = country => i <= j]

SimulatedDimension == OrDefault(response.kwargs.dimension, "environment")

ImprovementPoints == OrDefault(response.kwargs.improvement, 10)

\* the sum over the filtered table of (x - mean x)(y - mean y), for columns a, b
Centered(a, b) ==
    LET xs == [i \in Rows(Filtered) |-> Filtered[i].val[a]]
        ys == [i \in Rows(Filtered) |-> Filtered[i].val[b]]
    IN  SumSeq([i \in Rows(Filtered) |->
                   RMul(RSub(xs[i], Mean(xs)), RSub(ys[i], Mean(ys)))])

\* C17: in the point-improvement simulation the simulated dimension value is
\* raw + points, above 100 whenever that sum is, and the simulated life
\* satisfaction is current + points * corr * 0.3, corr being Pearson's r of
\* life satisfaction and the dimension over the whole filtered table (no
\* number where r is undefined), with no clamping.
C17_PointImprovementUncapped ==
    SimulatorAnswered =>
        LET raw == SimulatedRow.val[SimulatedDimension]
            x == response.figure.simulated.x
            y == response.figure.simulated.y
            n == Len(Filtered)
            sxy == Centered("life_satisfaction", SimulatedDimension)
            sxx == Centered("life_satisfaction", "life_satisfaction")
            syy == Centered(SimulatedDimension, SimulatedDimension)
        IN  /\ x[1] * raw[2] = (raw[1] + ImprovementPoints * raw[2]) * x[2]
            /\ raw[1] + ImprovementPoints * raw[2] > 100 * raw[2] => x[1] > 100 * x[2]
            /\ IF n < 2 \/ sxx[1] = 0 \/ syy[1] = 0 THEN y.nan
               ELSE /\ ~y.nan
                    /\ y.base = SimulatedRow.val["life_satisfaction"]
                    /\ IF ImprovementPoints = 0 \/ sxy[1] = 0
                       THEN y.coef[1] = 0 \/ y.cov[1] = 0
                       ELSE /\ y.coef[1] * 10 = 3 * ImprovementPoints * y.coef[2]
                            /\ y.cov = RScale(n, sxy)
                            /\ y.vx = RScale(n, sxx)
                            /\ y.vy = RScale(n, syy)

\* a simulated dimension value above 100 and a simulated life satisfaction
\* above 100
C17_Witness ==
    /\ SimulatorAnswered
    /\ RLt(<<100, 1>>, response.figure.simulated.x)
    /\ ~response.figure.simulated.y.nan
    /\ response.figure.simulated.y.base = <<100, 1>>
    /\ response.figure.simulated.y.coef[1] > 0
    /\ response.figure.simulated.y.cov[1] > 0

DiagnosisAnswered ==
    response.feature = "diagnosis" /\ "strengths" \in DOMAIN response.narrative

\* the row the diagnosis response is about
DiagnosedRow ==
    LET country == OrDefault(response.kwargs.country, "Finland")
    IN  Filtered[CHOOSE i \in Rows(Filtered) :
                    /\ Filtered[i].country = country
                    /\ \A j \in Rows(Filtered) : Filtered[j].country = country => i <= j]

\* the (label, gap) pairs of the diagnosed row
DiagnosedPairs ==
    {[label |-> dimension_names[c], gap |-> DiagnosedRow.gap[c]] :
        c \in DOMAIN DiagnosedRow.gap \cap Range(gap_columns)}

Least(a, b) == IF a < b THEN a ELSE b

Falling(list) ==
    \A i \in DOMAIN list : \A j \in DOMAIN list : i < j => RLe(list[j].gap, list[i].gap)

\* C18: the strengths are the min(2, k) pairs of the highest gaps among the k
\* pairs with gap > 0, the weaknesses the min(2, m) pairs of the lowest gaps
\* among the m pairs with gap < 0, both listed by falling gap; neither has
\* more than 2 entries, a zero gap is in neither, and no pair is in both.
C18_StrengthsAndWeaknesses ==
    DiagnosisAnswered =>
        LET strengths == response.narrative.strengths
            weaknesses == response.narrative.weaknesses
            positive == {d \in DiagnosedPairs : RLt(<<0, 1>>, d.gap)}
            negative == {d \in DiagnosedPairs : RLt(d.gap, <<0, 1>>)}
        IN  /\ Len(strengths) = Least(2, Cardinality(positive))
            /\ Len(weaknesses) = Least(2, Cardinality(negative))
            /\ Range(strengths) \subseteq positive
            /\ Range(weaknesses) \subseteq negative
            /\ Cardinality(Range(strengths)) = Len(strengths)
            /\ Cardinality(Range(weaknesses)) = Len(weaknesses)
            /\ \A d \in positive \ Range(strengths) :
                  \A k \in DOMAIN strengths : RLe(d.gap, strengths[k].gap)
            /\ \A d \in negative \ Range(weaknesses) :
                  \A k \in DOMAIN weaknesses : RLe(weaknesses[k].gap, d.gap)
            /\ Falling(strengths)
            /\ Falling(weaknesses)
            /\ Range(strengths) \cap Range(weaknesses) = {}

\* a diagnosis of a row with more than two gaps above zero, a zero gap and
\* one gap below zero
C18_Witness ==
    /\ DiagnosisAnswered
    /\ Cardinality({d \in DiagnosedPairs : RLt(<<0, 1>>, d.gap)}) > 2
    /\ Cardinality({d \in DiagnosedPairs : RLt(d.gap, <<0, 1>>)}) = 1
    /\ \E d \in DiagnosedPairs : d.gap = <<0, 1>>
    /\ Len(response.narrative.strengths) = 2
    /\ Len(response.narrative.weaknesses) = 1

\* C19: every narrative has a policy sentence that names the weakest
\* dimension (a pair of the lowest gap, whatever its sign) and the top
\* performer (a country of the greatest composite_index in the filtered table).
C19_PolicySentenceNamesWeakest ==
    DiagnosisAnswered =>
        /\ \E d \in DiagnosedPairs :
              /\ response.narrative.policy.dimension = d.label
              /\ \A e \in DiagnosedPairs : RLe(d.gap, e.gap)
        /\ \E i \in Rows(Filtered) :
              /\ response.narrative.policy.leader = <<Filtered[i].country>>
              /\ \A j \in Rows(Filtered) :
                    RLe(Filtered[j].composite_index, Filtered[i].composite_index)

\* the country a diagnosis or simulator response selected
SelectedCountry ==
    OrDefault(response.kwargs.country,
              IF response.feature = "diagnosis" THEN "Finland" ELSE "United States")

NoRows == Len(Filtered) = 0

NoCountryRow ==
    /\ response.feature \in {"diagnosis", "simulator"}
    /\ ~NoRows
    /\ \A i \in Rows(Filtered) : Filtered[i].country # SelectedCountry

\* C20: in each feature, when the filtered table has no row, or has none for
\* the selected country, the update returns the chart annotated "No data
\* available" (for the country), the matching text where the feature has a
\* narrative, and an empty error text.
C20_NoDataIsNotAnError ==
    /\ (response.feature # "none" /\ NoRows) =>
          /\ response.error = ""
          /\ response.figure.annotation = "No data available"
          /\ response.feature = "simulator" =>
                response.narrative = "No data available for analysis."
          /\ response.feature = "diagnosis" =>
                response.narrative = [text |-> "No data available for analysis."]
    /\ NoCountryRow =>
          /\ response.error = ""
          /\ response.figure.annotation = "No data available for " \o SelectedCountry
          /\ response.feature = "simulator" =>
                response.narrative = "No data available for " \o SelectedCountry \o "."
          /\ response.feature = "diagnosis" =>
                response.narrative =
                    [text |-> "No data available for " \o SelectedCountry \o "."]

\* a simulator response for a country that the filter removed while other
\* countries remain
C20_Witness ==
    /\ response.feature = "simulator"
    /\ NoCountryRow
    /\ \E i \in Rows(table) : table[i].country = SelectedCountry
    /\ response.error = ""

-----------------------------------------------------------------------------
(* Exceptions inside _update_logic *)

\* whether the _update_logic call behind the last response raised
Raised ==
    IF response.feature = "policy" THEN PolicyLogic(response.kwargs, df_sim).raised
    ELSE IF response.feature = "simulator" THEN SimulatorLogic(response.kwargs).raised
    ELSE DiagnosisLogic(response.kwargs, "").raised

\* C21: an exception raised inside a feature's _update_logic never leaves
\* update: the response is the placeholder chart "An error occurred while
\* updating this chart" with a non-empty error text; and when nothing was
\* raised the error text is empty and the chart is the one _update_logic built.
C21_ExceptionsCaught ==
    response.feature # "none" =>
        /\ Raised => /\ response.figure = NoDataFigure("An error occurred while updating this chart")
                     /\ response.error # ""
        /\ ~Raised => /\ response.error = ""
                      /\ response.figure # NoDataFigure("An error occurred while updating this chart")

\* the gap chart was asked of a table without composite_index, and the call
\* answered with the placeholder
C21_Witness ==
    /\ response.feature = "diagnosis"
    /\ ~HasComposite(table)
    /\ response.error # ""
    /\ response.narrative = [text |-> "Error generating narrative."]

\* the columns of the loaded table
TableColumns == DOMAIN table[1].val

\* C22: when a dimension column and its _gap column are absent from the
\* table, each feature's update still succeeds: its error text is empty.
C22_MissingDimensionOmitted ==
    (response.feature # "none" /\ TableColumns # AllColumns) => response.error = ""

-----------------------------------------------------------------------------
(* The filter *)

\* whether a row meets a predicate of the filter, by cross-multiplication
Meets(row, q) ==
    LET x == row.val[q.column]
    IN  IF q.op = ">=" THEN x[1] * q.value[2] >= q.value[1] * x[2]
        ELSE x[1] * q.value[2] <= q.value[1] * x[2]

\* the rows of the loaded table that meet every predicate of the last call
Kept == {i \in Rows(table) : \A q \in response.kwargs.filter : Meets(table[i], q)}

\* the k-th of them, in table order
KeptIndex(k) == CHOOSE i \in Kept : Cardinality({j \in Kept : j <= i}) = k

\* C23: filter_data returns exactly the rows that satisfy all the predicates,
\* in their original order: a call answers "No data available" exactly when
\* no row satisfies them all, and otherwise the rows the policy simulation
\* works on are the satisfying rows of the table, in table order, with their
\* values; so a filter every row satisfies returns a table equal to the input.
C23_FilterKeepsMatchingRows ==
    response.feature # "none" =>
        /\ Kept = {} <=> response.figure = NoDataFigure("No data available")
        /\ PolicyAnswered =>
            /\ Len(df_sim) = Cardinality(Kept)
            /\ \A k \in Rows(df_sim) :
                /\ df_sim[k].country = table[KeptIndex(k)].country
                /\ df_sim[k].val = table[KeptIndex(k)].val
                /\ df_sim[k].gap = table[KeptIndex(k)].gap

\* a call with two predicates: a row that meets only one of them is left out,
\* and a later row of the table is kept
C23_Witness ==
    /\ PolicyAnswered
    /\ Cardinality(response.kwargs.filter) = 2
    /\ \E i \in Rows(table) \ Kept : \E q \in response.kwargs.filter : Meets(table[i], q)
    /\ \E i \in Rows(table) \ Kept : \E j \in Kept : i < j

-----------------------------------------------------------------------------
(* Min-max normalization *)

\* the dimensions of the output that are not inverted
MinMaxCols == {c \in Range(dimension_cols) : ~should_invert(c)}

\* whether two output rows differ in the raw value of column c
Varies(c) ==
    \E i, j \in Rows(Output) : RLt(RawOf(Output[i], c), RawOf(Output[j], c))

\* C24: for a dimension that is not inverted and whose raw values are not all
\* equal, min-max normalization gives the country with the maximum raw value
\* exactly 100.0 and the country with the minimum raw value exactly 0.0, and a
\* country with a raw value at least another's has a normalized value at least
\* the other's.
C24_MinMaxEndpoints ==
    Saved =>
        \A c \in MinMaxCols :
            Varies(c) =>
                \A i \in Rows(Output) :
                    LET x == RawOf(Output[i], c)
                    IN  /\ (\A j \in Rows(Output) : RLe(RawOf(Output[j], c), x))
                            => Output[i].val[c] = <<100, 1>>
                        /\ (\A j \in Rows(Output) : RLe(x, RawOf(Output[j], c)))
                            => Output[i].val[c] = <<0, 1>>
                        /\ \A j \in Rows(Output) :
                            RLe(x, RawOf(Output[j], c))
                                => RLe(Output[i].val[c], Output[j].val[c])

\* three countries with three different raw values of a column that is not
\* inverted: the least, one strictly between, the greatest
C24_Witness ==
    /\ Saved
    /\ \E c \in MinMaxCols : \E i, j, k \in Rows(Output) :
        /\ RLt(RawOf(Output[i], c), RawOf(Output[j], c))
        /\ RLt(RawOf(Output[j], c), RawOf(Output[k], c))
        /\ Output[i].val[c] = <<0, 1>>
        /\ Output[k].val[c] = <<100, 1>>
        /\ RLt(<<0, 1>>, Output[j].val[c])
        /\ RLt(Output[j].val[c], <<100, 1>>)

-----------------------------------------------------------------------------
(* The coverage threshold *)

\* how many dimension cells of row k of the pivoted table are missing
PivotedMissing(k) == MissingCount(Pivoted[k], dimension_cols)

\* whether the country of row k of the pivoted table is still in df_wide
Retained(k) ==
    \E i \in Rows(df_wide) :
        /\ df_wide[i].country = Pivoted[k].country
        /\ df_wide[i].country_code = Pivoted[k].country_code

\* the row of df_wide for the country of row k of the pivoted table
RetainedRow(k) ==
    df_wide[CHOOSE i \in Rows(df_wide) :
                /\ df_wide[i].country = Pivoted[k].country
                /\ df_wide[i].country_code = Pivoted[k].country_code]

\* C25: the threshold is strict: a country that misses exactly half of the
\* columns present after the pivot is retained, and each of its missing cells
\* holds the mean of the column over the values the retained countries
\* observed (so a dropped country adds nothing to it); a country is dropped
\* only when it misses strictly more than half.
C25_StrictThreshold ==
    pc = "filled" =>
        \A k \in Rows(Pivoted) :
            /\ Retained(k) <=> 2 * PivotedMissing(k) <= Len(dimension_cols)
            /\ 2 * PivotedMissing(k) = Len(dimension_cols) =>
                \A n \in DOMAIN dimension_cols :
                    LET c == dimension_cols[n]
                        xs == SurvivorValues(c)
                    IN  IsNaN(Pivoted[k].val[c]) =>
                            /\ Len(xs) > 0
                            /\ RetainedRow(k).val[c]
                                   = Rat(SumSeq(xs)[1], SumSeq(xs)[2] * Len(xs))

-----------------------------------------------------------------------------
(* The weighted sum of the policy simulation *)

\* a hundred times the weighted sum of a simulated row, written out
HundredfoldSum(r) ==
    RAdd(RScale(15, r.sim["environment"]),
    RAdd(RScale(15, r.sim["education"]),
    RAdd(RScale(20, r.sim["jobs"]),
    RAdd(RScale(10, r.val["safety"]),
    RAdd(RScale(10, r.val["income"]),
    RAdd(RScale(10, r.val["housing"]),
    RAdd(RScale(10, r.val["health"]),
    RAdd(RScale(5, r.val["work_life_balance"]),
         RScale(5, r.val["social_connections"])))))))))

\* C26: the life_satisfaction_sim of every country in the policy simulation
\* is the weighted sum of its nine dimension values, the simulated ones for
\* environment, education and jobs and the raw ones for the other six, with
\* the weights 0.15, 0.15, 0.20, 0.10, 0.10, 0.10, 0.10, 0.05, 0.05, which sum to
\* 1.0; the stored life_satisfaction has no part in it; and for values in
\* [0, 100] it lies in [0, 100].
C26_WeightedSum ==
    /\ 15 + 15 + 20 + 10 + 10 + 10 + 10 + 5 + 5 = 100
    /\ PolicyAnswered =>
        \A i \in Rows(df_sim) :
            /\ RScale(100, df_sim[i].life_satisfaction_sim) = HundredfoldSum(df_sim[i])
            /\ InRange0To100(df_sim[i].life_satisfaction_sim)

\* a boosted call in which a country whose stored life_satisfaction is 0.0 has
\* a positive simulated life satisfaction, and another country's simulated
\* life satisfaction is below its stored one
C26_Witness ==
    /\ PolicyAnswered
    /\ \E d \in BoostedDims : BoostOf(d) > 0
    /\ \E i \in Rows(df_sim) :
        /\ df_sim[i].val["life_satisfaction"] = <<0, 1>>
        /\ RLt(<<0, 1>>, df_sim[i].life_satisfaction_sim)
    /\ \E i \in Rows(df_sim) :
        RLt(df_sim[i].life_satisfaction_sim, df_sim[i].val["life_satisfaction"])

-----------------------------------------------------------------------------
(* The sections of the narrative *)

\* whether a bullet shows the pair d: its dimension and its gap, signed, with
\* one decimal
Shows(b, d) ==
    /\ b.subject = d.label
    /\ b.gap # <<>>
    /\ b.gap[1].sign = (IF d.gap[1] < 0 THEN "-" ELSE "+")
    /\ Rat(10 * b.gap[1].whole + b.gap[1].tenth, 10) = RAbs(d.gap)

\* C27: when no dimension has a gap above zero the strengths section is the
\* generic "performing at or below OECD average" paragraph, with no bullet of
\* a dimension; when none has a gap below zero the weaknesses section is the
\* generic "balanced performance" paragraph, with no bullet of a dimension;
\* otherwise the section has one bullet per strength (weakness), showing its
\* dimension and its gap, signed, with one decimal.
C27_NarrativeFallbacks ==
    DiagnosisAnswered =>
        LET above == response.narrative.strengths_section
            below == response.narrative.weaknesses_section
            positive == {d \in DiagnosedPairs : RLt(<<0, 1>>, d.gap)}
            negative == {d \in DiagnosedPairs : RLt(d.gap, <<0, 1>>)}
        IN  /\ IF positive = {}
               THEN /\ \A k \in DOMAIN above.bullets :
                          /\ above.bullets[k].gap = <<>>
                          /\ above.bullets[k].text
                                = "is performing at or below OECD average across most dimensions"
                    /\ above.paragraph = "faces challenges across multiple wellbeing dimensions"
               ELSE /\ Len(above.bullets) = Least(2, Cardinality(positive))
                    /\ \A k \in DOMAIN above.bullets :
                          /\ \E d \in positive : Shows(above.bullets[k], d)
                          /\ above.bullets[k].gap[1].sign = "+"
            /\ IF negative = {}
               THEN /\ \A k \in DOMAIN below.bullets :
                          /\ below.bullets[k].gap = <<>>
                          /\ below.bullets[k].text
                                = "shows relatively balanced performance across dimensions"
                    /\ below.paragraph = "maintains consistent performance"
               ELSE /\ Len(below.bullets) = Least(2, Cardinality(negative))
                    /\ \A k \in DOMAIN below.bullets :
                          /\ \E d \in negative : Shows(below.bullets[k], d)
                          /\ below.bullets[k].gap[1].sign = "-"

\* a diagnosis of a country with no gap above zero and several below: the
\* generic strengths paragraph, and two weakness bullets
C27_Witness ==
    /\ DiagnosisAnswered
    /\ \A d \in DiagnosedPairs : RLe(d.gap, <<0, 1>>)
    /\ Len(response.narrative.weaknesses_section.bullets) = 2
    /\ response.narrative.strengths_section.paragraph
          = "faces challenges across multiple wellbeing dimensions"

-----------------------------------------------------------------------------
(* The layout of a component *)

LayoutAnswered == layout # NoLayout

LayoutCall == layout.call[1]

\* C28: _get_component_layout never raises, whatever the component name: for
\* a name that is not in component_registry it returns the error placeholder
\* card with the recorded import failure (or "Component not found in
\* registry."), for a registered component whose constructor raises it
\* returns the error placeholder card of that exception; and once the module
\* is imported each of the 8 chart components is in exactly one of
\* component_registry and failed_components.
C28_LayoutNeverRaises ==
    /\ imported = Len(ComponentNames) =>
        /\ Len(ComponentNames) = 8
        /\ \A name \in Range(ComponentNames) :
            (name \in DOMAIN component_registry) # (name \in DOMAIN failed_components)
        /\ DOMAIN component_registry \cup DOMAIN failed_components = Range(ComponentNames)
    /\ LayoutAnswered =>
        /\ ~layout.raised
        /\ layout.card.name = LayoutCall.component_name
        /\ layout.card.width = LayoutCall.width
        /\ IF LayoutCall.component_name \notin DOMAIN component_registry
           THEN /\ layout.card.header = "Error loading"
                /\ layout.card.body.details
                      = (IF LayoutCall.component_name \in Range(ComponentNames)
                         THEN "No module named components." \o LayoutCall.component_name
                         ELSE "Component not found in registry.")
           ELSE IF LayoutCall.outcome # "card"
           THEN /\ layout.card.header = "Error in"
                /\ layout.card.body.exception = LayoutCall.outcome
           ELSE layout.card.header = "component"

\* after an import in which some components loaded and some failed, the
\* layout of a registered component whose constructor raised was asked for
C28_Witness ==
    /\ LayoutAnswered
    /\ failed_components # <<>>
    /\ LayoutCall.component_name \in DOMAIN component_registry
    /\ LayoutCall.outcome # "card"
    /\ layout.card.header = "Error in"

-----------------------------------------------------------------------------
(* The validation checks and the files *)

OutputFiles == {MainFile, MetadataFile, SampleFile}

\* C29: the validation checks run only after the main output file, the
\* metadata file and the 15-row sample file are written, and a failing check
\* only prints a warning: the step that runs the checks finds the three files
\* written and leaves them as they are.
C29_ValidationAfterSave ==
    [][checks' # <<>> => (OutputFiles \subseteq DOMAIN out_files /\ out_files' = out_files)]_vars

\* the checks ran and failed with a warning, and the three files are there
C29_Witness ==
    /\ pc = "validated"
    /\ checks.warning
    /\ ~checks.at_least_25
    /\ DOMAIN out_files = OutputFiles
    /\ out_files[MainFile] = df_wide
    /\ Len(out_files[SampleFile]) = 15
    /\ Len(out_files[MainFile]) > 15

-----------------------------------------------------------------------------
(* The simulator when the correlation is undefined *)

\* whether every row of the filtered table has the same value in column c
Constant(c) ==
    \A i, j \in Rows(Filtered) : Filtered[i].val[c] = Filtered[j].val[c]

\* Pearson's correlation of life_satisfaction and the chosen dimension over
\* the filtered table is undefined: one row, or a constant column
CorrelationUndefined ==
    Len(Filtered) < 2 \/ Constant("life_satisfaction") \/ Constant(SimulatedDimension)

\* C30: when the correlation is undefined the simulator's update still
\* returns a chart and a narrative with an empty error text, and the simulated
\* life satisfaction in them is NaN, not the current life satisfaction, even
\* for 0 improvement points; the simulated dimension value is still the
\* current one plus the points.
C30_UndefinedCorrelationGivesNaN ==
    (SimulatorAnswered /\ CorrelationUndefined) =>
        /\ response.error = ""
        /\ response.narrative = "AI Simulation Insight"
        /\ response.figure.simulated.y.nan
        /\ ~IsExactly(response.figure.simulated.y, response.figure.current.y)
        /\ response.figure.current.y = SimulatedRow.val["life_satisfaction"]
        /\ response.figure.simulated.x
              = RAdd(SimulatedRow.val[SimulatedDimension], <<ImprovementPoints, 1>>)

\* 0 improvement points on a table of several countries whose chosen
\* dimension is constant
C30_Witness ==
    /\ SimulatorAnswered
    /\ response.kwargs.improvement = <<0>>
    /\ Len(Filtered) >= 2
    /\ ~Constant("life_satisfaction")
    /\ Constant(SimulatedDimension)
    /\ response.figure.simulated.y.nan
    /\ response.error = ""

=============================================================================
